---- MODULE Spec2Model ----
(***************************************************************************)
(* Model of src/url-rewrite/index.js: the viewer-request function that     *)
(* rewrites an image request's uri from its query string and Accept        *)
(* header.  JavaScript strings are sequences of one-character strings, so  *)
(* that toLowerCase, indexOf, parseInt, toString and encodeURIComponent    *)
(* are computed character by character as the runtime computes them.       *)
(* A JavaScript value is a record [t, s]: t is its typeof-like tag and s   *)
(* its characters when it is a string.                                     *)
(***************************************************************************)
EXTENDS Integers, Sequences, FiniteSets

VARIABLES request, input, calls, result, parseArgs, parseRes

vars == <<request, input, calls, result, parseArgs, parseRes>>

\* ---------------------------------------------------------------- bounds

\* Number of times handler is applied to the same request object.
MaxCalls == 3

\* Largest number of entries of a generated query-string mapping.
MaxEntries == 2

\* Longest raw value handed to parsePositiveInt on its own.
MaxLen == 3

\* ------------------------------------------------------- JavaScript values

Undefined == [t |-> "undefined", s |-> <<>>]

Null == [t |-> "null", s |-> <<>>]

Str(chars) == [t |-> "string", s |-> chars]

Num(n) == [t |-> "number", n |-> n]

NoNum == [t |-> "undefined", n |-> 0]

NullNum == [t |-> "null", n |-> 0]

\* Truthiness of a string-or-undefined value: undefined, null and "" are falsy.
Truthy(v) == v.t = "string" /\ v.s # <<>>

\* String(value) for the values a query-string entry can hold.
ToStringJS(v) ==
    CASE v.t = "string" -> v.s
      [] v.t = "undefined" -> <<"u","n","d","e","f","i","n","e","d">>
      [] OTHER -> <<"n","u","l","l">>

UpperChars == <<"A","B","C","D","E","F","G","H","I","J","K","L","M",
                "N","O","P","Q","R","S","T","U","V","W","X","Y","Z">>

LowerChars == <<"a","b","c","d","e","f","g","h","i","j","k","l","m",
                "n","o","p","q","r","s","t","u","v","w","x","y","z">>

ToLowerChar(c) ==
    IF \E i \in 1..26 : UpperChars[i] = c
    THEN LowerChars[CHOOSE i \in 1..26 : UpperChars[i] = c]
    ELSE c

\* String.prototype.toLowerCase on ASCII text.
ToLowerCase(str) == [i \in 1..Len(str) |-> ToLowerChar(str[i])]

\* String.prototype.indexOf: 0-based index of the first occurrence, or -1.
IndexOf(hay, needle) ==
    LET hits == {i \in 0..(Len(hay) - Len(needle)) :
                    SubSeq(hay, i + 1, i + Len(needle)) = needle}
    IN IF hits = {} THEN -1
       ELSE CHOOSE i \in hits : \A j \in hits : i <= j

DigitChars == <<"0","1","2","3","4","5","6","7","8","9">>

IsDigit(c) == \E i \in 1..10 : DigitChars[i] = c

DigitValue(c) == (CHOOSE i \in 1..10 : DigitChars[i] = c) - 1

WhiteSpace == {" ", "\t", "\n"}

RECURSIVE SkipWhiteSpace(_)
SkipWhiteSpace(str) ==
    IF str # <<>> /\ Head(str) \in WhiteSpace
    THEN SkipWhiteSpace(Tail(str))
    ELSE str

\* Scans the digits at the front of str, accumulating their base-10 value.
RECURSIVE ScanDigits(_, _, _)
ScanDigits(str, acc, seen) ==
    IF str # <<>> /\ IsDigit(Head(str))
    THEN ScanDigits(Tail(str), acc * 10 + DigitValue(Head(str)), TRUE)
    ELSE [nan |-> ~seen, n |-> acc]

\* parseInt(value, 10): String(value), leading white space stripped, an
\* optional sign, then the longest run of decimal digits; NaN without one.
ParseInt(value) ==
    LET S == SkipWhiteSpace(ToStringJS(value))
        neg == S # <<>> /\ Head(S) = "-"
        signed == S # <<>> /\ Head(S) \in {"+", "-"}
        Z == IF signed THEN Tail(S) ELSE S
        r == ScanDigits(Z, 0, FALSE)
    IN [nan |-> r.nan, n |-> IF neg THEN 0 - r.n ELSE r.n]

RECURSIVE NatToString(_)
NatToString(n) ==
    IF n < 10 THEN <<DigitChars[n + 1]>>
    ELSE NatToString(n \div 10) \o <<DigitChars[(n % 10) + 1]>>

\* Number.prototype.toString for the integers handler produces.
NumberToString(n) == IF n < 0 THEN <<"-">> \o NatToString(0 - n) ELSE NatToString(n)

Min(a, b) == IF a < b THEN a ELSE b

\* ---------------------------------------------------------- configuration

SUPPORTED_FORMATS ==
    << <<"a","u","t","o">>, <<"j","p","e","g">>, <<"w","e","b","p">>,
       <<"a","v","i","f">>, <<"p","n","g">>, <<"s","v","g">>, <<"g","i","f">> >>

MAX_DIMENSION == 4000

MAX_QUALITY == 100

\* -------------------------------------------------------- parsePositiveInt

\* The guard with < in place of <=.
NegativeOnly(parsed) == parsed.nan \/ parsed.n < 0

\* The guard of the first return (line 9): not a number, or not positive.
NotPositive(parsed) == parsed.nan \/ parsed.n <= 0

\* parsePositiveInt with the clamp forgotten.
ParsePositiveIntNoClamp(value, max) ==
    LET parsed == ParseInt(value)
    IN IF NotPositive(parsed) THEN NullNum ELSE Num(parsed.n)

parsePositiveInt(value, max) ==
    LET parsed == ParseInt(value)
    IN IF NotPositive(parsed) THEN NullNum
       ELSE IF max.t = "number" THEN Num(Min(parsed.n, max.n))
       ELSE Num(parsed.n)

\* ---------------------------------------- getBestFormatFromAcceptHeader

S_jpeg == <<"j","p","e","g">>

S_webp == <<"w","e","b","p">>

S_auto == <<"a","u","t","o">>

S_image_webp == <<"i","m","a","g","e","/","w","e","b","p">>

\* typeof: null is reported as 'object'.
TypeOf(v) == IF v.t = "null" THEN "object" ELSE v.t

\* The guard of line 24, for headers on which it evaluates without error:
\* headers is no object, has no accept entry, or the entry has no value.
HeadersUnusable(headers) ==
    \/ TypeOf(headers) # "object"
    \/ headers.accept.t # "object"
    \/ ~Truthy(headers.accept.value)

\* Lines 28-38: the format for a usable Accept header value.
Negotiate(acceptHeaderValue) ==
    IF IndexOf(acceptHeaderValue, S_image_webp) # -1 THEN S_webp ELSE S_jpeg

\* [threw, format]: reading headers['accept'] of null throws a TypeError,
\* since typeof null is 'object' and the guard goes on to the property read.
getBestFormatFromAcceptHeader(headers) ==
    IF TypeOf(headers) = "object" /\ headers.t = "null"
    THEN [threw |-> TRUE, format |-> <<>>]
    ELSE IF HeadersUnusable(headers)
    THEN [threw |-> FALSE, format |-> S_jpeg]
    ELSE [threw |-> FALSE, format |-> Negotiate(headers.accept.value.s)]

\* ------------------------------------------------------------------ handler

S_format == <<"f","o","r","m","a","t">>

S_quality == <<"q","u","a","l","i","t","y">>

S_width == <<"w","i","d","t","h">>

S_height == <<"h","e","i","g","h","t">>

IsSupported(fmt) == \E i \in 1..Len(SUPPORTED_FORMATS) : SUPPORTED_FORMATS[i] = fmt

\* normalizedOperations = {} and formatFromQuery = null (lines 44-45).
EmptyOperations ==
    [ops |-> [format |-> Undefined, quality |-> Undefined,
              width |-> Undefined, height |-> Undefined],
     formatFromQuery |-> Null]

\* case 'format' without the reset of 'auto' to null.
FormatCaseKeepAuto(st, value) ==
    IF Truthy(value) /\ IsSupported(ToLowerCase(value.s))
    THEN [st EXCEPT !.formatFromQuery = Str(ToLowerCase(value.s))]
    ELSE st

\* case 'format' (lines 52-59).
FormatCase(st, value) ==
    IF Truthy(value) /\ IsSupported(ToLowerCase(value.s))
    THEN IF ToLowerCase(value.s) = S_auto
         THEN [st EXCEPT !.formatFromQuery = Null]
         ELSE [st EXCEPT !.formatFromQuery = Str(ToLowerCase(value.s))]
    ELSE st

\* case 'width' storing its result under the key of case 'height'.
WidthCaseWrongKey(st, value) ==
    LET width == parsePositiveInt(value, Num(MAX_DIMENSION))
    IN IF width.t = "number" /\ width.n # 0
       THEN [st EXCEPT !.ops.height = Str(NumberToString(width.n))]
       ELSE st

\* case 'width' (lines 60-64).
WidthCase(st, value) ==
    LET width == parsePositiveInt(value, Num(MAX_DIMENSION))
    IN IF width.t = "number" /\ width.n # 0
       THEN [st EXCEPT !.ops.width = Str(NumberToString(width.n))]
       ELSE st

\* case 'height' (lines 65-69).
HeightCase(st, value) ==
    LET height == parsePositiveInt(value, Num(MAX_DIMENSION))
    IN IF height.t = "number" /\ height.n # 0
       THEN [st EXCEPT !.ops.height = Str(NumberToString(height.n))]
       ELSE st

\* case 'quality' (lines 70-74).
QualityCase(st, value) ==
    LET quality == parsePositiveInt(value, Num(MAX_QUALITY))
    IN IF quality.t = "number" /\ quality.n # 0
       THEN [st EXCEPT !.ops.quality = Str(NumberToString(quality.n))]
       ELSE st

\* The body of the for-in loop for one entry (lines 50-77).
SwitchOperation(st, entry) ==
    LET operation == ToLowerCase(entry.name)
        value == entry.value
    IN CASE operation = S_format -> FormatCase(st, value)
         [] operation = S_width -> WidthCase(st, value)
         [] operation = S_height -> HeightCase(st, value)
         [] operation = S_quality -> QualityCase(st, value)
         [] OTHER -> st

\* The for-in loop over the entries in the order the platform gives them.
RECURSIVE ForEachOperation(_, _)
ForEachOperation(st, entries) ==
    IF entries = <<>> THEN st
    ELSE ForEachOperation(SwitchOperation(st, Head(entries)), Tail(entries))

S_hasOwnProperty == <<"h","a","s","O","w","n","P","r","o","p","e","r","t","y">>

\* Line 49 calls request.querystring.hasOwnProperty: with a query parameter of
\* that very name the property read yields the entry object, which is not
\* callable, and the call throws a TypeError in the first iteration.
HasOwnPropertyShadowed(querystring) ==
    /\ querystring.t = "object"
    /\ \E i \in 1..Len(querystring.entries) :
          querystring.entries[i].name = S_hasOwnProperty

\* Lines 47-80: the loop runs only when request.querystring is truthy.
ParseQuerystring(querystring) ==
    IF querystring.t = "object"
    THEN ForEachOperation(EmptyOperations, querystring.entries)
    ELSE EmptyOperations

\* Characters encodeURIComponent leaves as they are, besides letters and digits.
UnreservedMarks == {"-", "_", ".", "!", "~", "*", "'", "(", ")"}

IsLetter(c) == \E i \in 1..26 : UpperChars[i] = c \/ LowerChars[i] = c

\* The %XX escape of the ASCII characters that are escaped.
PercentCode(c) ==
    CASE c = " " -> <<"%","2","0">>
      [] c = "#" -> <<"%","2","3">>
      [] c = "$" -> <<"%","2","4">>
      [] c = "%" -> <<"%","2","5">>
      [] c = "&" -> <<"%","2","6">>
      [] c = "+" -> <<"%","2","B">>
      [] c = "," -> <<"%","2","C">>
      [] c = "/" -> <<"%","2","F">>
      [] c = ":" -> <<"%","3","A">>
      [] c = ";" -> <<"%","3","B">>
      [] c = "=" -> <<"%","3","D">>
      [] c = "?" -> <<"%","3","F">>
      [] c = "@" -> <<"%","4","0">>

RECURSIVE encodeURIComponent(_)
encodeURIComponent(str) ==
    IF str = <<>> THEN <<>>
    ELSE LET c == Head(str)
         IN (IF IsLetter(c) \/ IsDigit(c) \/ c \in UnreservedMarks
             THEN <<c>> ELSE PercentCode(c))
            \o encodeURIComponent(Tail(str))

\* Array.prototype.join(',').
RECURSIVE Join(_)
Join(parts) ==
    IF parts = <<>> THEN <<>>
    ELSE IF Len(parts) = 1 THEN parts[1]
    ELSE parts[1] \o <<",">> \o Join(Tail(parts))

Pair(key, v) == IF Truthy(v) THEN << key \o <<"=">> \o encodeURIComponent(v.s) >> ELSE <<>>

\* The pushes in the order width, height, quality, format.
OperationsArrayQueryOrder(ops) ==
    Pair(S_width, ops.width) \o Pair(S_height, ops.height)
        \o Pair(S_quality, ops.quality) \o Pair(S_format, ops.format)

\* Lines 87-91: normalizedOperationsArray.
OperationsArray(ops) ==
    Pair(S_format, ops.format) \o Pair(S_quality, ops.quality)
        \o Pair(S_width, ops.width) \o Pair(S_height, ops.height)

\* The Accept header consulted first, the query format only as a fallback.
FinalFormatHeaderFirst(st, headers) ==
    LET best == getBestFormatFromAcceptHeader(headers)
    IN IF best.threw THEN IF st.formatFromQuery.t = "string"
                          THEN [threw |-> FALSE, format |-> st.formatFromQuery.s]
                          ELSE best
       ELSE IF best.format = S_webp \/ st.formatFromQuery.t # "string" THEN best
       ELSE [threw |-> FALSE, format |-> st.formatFromQuery.s]

\* Line 83: formatFromQuery || getBestFormatFromAcceptHeader(request.headers);
\* the right operand is evaluated only when formatFromQuery is null.
FinalFormat(st, headers) ==
    IF st.formatFromQuery.t = "string"
    THEN [threw |-> FALSE, format |-> st.formatFromQuery.s]
    ELSE getBestFormatFromAcceptHeader(headers)

EmptyQuerystring == [t |-> "object", entries |-> <<>>]

\* Line 97 left out: the query string is kept.
ClearedQuerystringKept(req) == req.querystring

\* Line 97: request.querystring = {}.
ClearedQuerystring(req) == EmptyQuerystring

\* handler(event) on event.request = req: [outcome, ref, request], ref naming
\* the object returned (line 98 returns the object read at line 42).  A throw
\* leaves the request as it was: lines 94 and 97 are the only writes and come
\* after the call that can throw.
handler(req) ==
    LET originalImagePath == req.uri
        st == ParseQuerystring(req.querystring)
        final == FinalFormat(st, req.headers)
        ops == [st.ops EXCEPT !.format = Str(final.format)]
    IN IF HasOwnPropertyShadowed(req.querystring) \/ final.threw
       THEN [outcome |-> "throw", ref |-> "none", request |-> req]
       ELSE [outcome |-> "return", ref |-> "event.request",
             request |-> [uri |-> originalImagePath \o <<"/">>
                              \o encodeURIComponent(Join(OperationsArray(ops))),
                          querystring |-> ClearedQuerystring(req),
                          headers |-> req.headers]]

\* ------------------------------------------------------------------ inputs

S_cat == <<"/","i","m","g","/","c","a","t",".","p","n","g">>

Entry(name, value) == [name |-> name, value |-> value]

\* The raw values each parameter name is given.  Names that differ only in
\* letter case are different keys of the mapping.
FormatEntries ==
    {Entry(S_format, v) : v \in {Str(<<"p","n","g">>), Str(S_auto),
                                 Str(<<"b","m","p">>)}}
    \cup {Entry(<<"F","O","R","M","A","T">>, v) :
            v \in {Str(<<"W","e","b","P">>), Str(<<"A","U","T","O">>), Str(<<>>)}}

WidthEntries ==
    {Entry(S_width, v) : v \in {Str(<<"3","0","0">>), Str(<<"9","9","9","9">>),
                                Str(<<"a","b","c">>)}}
    \cup {Entry(<<"W","i","d","t","h">>, v) :
            v \in {Str(<<"1","2","a","b","c">>), Undefined}}

HeightEntries ==
    {Entry(S_height, v) : v \in {Str(<<"4","0","0","0">>), Str(<<"4","0","0","1">>),
                                 Str(<<"0">>)}}

QualityEntries ==
    {Entry(S_quality, v) : v \in {Str(<<"8","5">>), Str(<<"1","0","1">>),
                                  Str(<<"-","5">>)}}

\* Names handler does not know; a name may be that of an Object method.
OtherEntries ==
    {Entry(<<"c","r","o","p">>, Str(<<"1">>)), Entry(S_hasOwnProperty, Str(<<"1">>))}

QueryEntries ==
    FormatEntries \cup WidthEntries \cup HeightEntries \cup QualityEntries
        \cup OtherEntries

\* A mapping has each key once; its entries come in the platform's order.
DistinctNames(entries) ==
    \A i, j \in 1..Len(entries) : i # j => entries[i].name # entries[j].name

Querystrings ==
    {[t |-> "object", entries |-> es] :
        es \in {e \in UNION {[1..n -> QueryEntries] : n \in 0..MaxEntries} :
                    DistinctNames(e)}}

\* width=300&height=9999&quality=0&format=png
ExampleQuerystring ==
    [t |-> "object",
     entries |-> << Entry(S_width, Str(<<"3","0","0">>)),
                    Entry(S_height, Str(<<"9","9","9","9">>)),
                    Entry(S_quality, Str(<<"0">>)),
                    Entry(S_format, Str(<<"p","n","g">>)) >>]

NoAccept == [t |-> "undefined", value |-> Undefined]

Accept(v) == [t |-> "object", value |-> v]

Headers(accept) == [t |-> "object", accept |-> accept]

S_text_html == <<"t","e","x","t","/","h","t","m","l">>

\* Headers as the platform delivers them: a mapping, with or without accept.
PlatformHeaders ==
    {Headers(NoAccept),
     Headers(Accept(Str(S_text_html \o <<",">> \o S_image_webp))),
     Headers(Accept(Str(S_text_html))),
     Headers(Accept(Str(<<"i","m","a","g","e","/","w","e","b">>))),
     Headers(Accept(Str(<<>>)))}

\* Missing or malformed headers: absent, null, not an object, an accept entry
\* that is null or has no value.
MalformedHeaders ==
    {[t |-> "undefined", accept |-> NoAccept],
     [t |-> "null", accept |-> NoAccept],
     [t |-> "string", accept |-> NoAccept],
     Headers([t |-> "null", value |-> Undefined]),
     Headers(Accept(Undefined))}

\* A request without a querystring property.
NoQuerystring == [t |-> "undefined", entries |-> <<>>]

\* A path with characters that encodeURIComponent would escape.
S_odd == <<"/","a"," ","b","%","2","C","c","=","d">>

Requests(querystringSet, headerSet) ==
    {[uri |-> S_cat, querystring |-> q, headers |-> h] :
        q \in querystringSet, h \in headerSet}
    \cup {[uri |-> S_odd, querystring |-> q, headers |-> h] :
            q \in {ExampleQuerystring, EmptyQuerystring}, h \in headerSet}

\* -------------------------------------------------------- the state machine

NoResult == [outcome |-> "none", ref |-> "none"]

NoArgs == [value |-> Undefined, max |-> NoNum]

Idle == [done |-> FALSE, value |-> NullNum]

InitRequest(querystringSet, headerSet) ==
    /\ request \in Requests(querystringSet, headerSet)
    /\ input = request
    /\ calls = 0
    /\ result = NoResult
    /\ parseArgs = NoArgs
    /\ parseRes = Idle

\* Requests that follow the platform's event structure.
Init == InitRequest(Querystrings \cup {ExampleQuerystring}, PlatformHeaders)

\* Requests with a missing query string or missing or malformed headers as well.
InitMalformed ==
    InitRequest(Querystrings \cup {ExampleQuerystring, NoQuerystring},
                PlatformHeaders \cup MalformedHeaders)

\* One invocation of handler on the request object; the object is mutated
\* in place, so a later invocation sees the rewritten request.
Handler ==
    /\ calls < MaxCalls
    /\ \E r \in {handler(request)} :
          /\ request' = r.request
          /\ result' = [outcome |-> r.outcome, ref |-> r.ref]
    /\ calls' = calls + 1
    /\ UNCHANGED <<input, parseArgs, parseRes>>

Next == Handler

Spec == Init /\ [][Next]_vars

SpecMalformed == InitMalformed /\ [][Next]_vars

\* ------------------------------------------- parsePositiveInt on its own

ParseAlphabet == {"0", "1", "7", "-", "+", " ", "a", "."}

ParseValues ==
    {Undefined} \cup {Str(s) : s \in UNION {[1..n -> ParseAlphabet] : n \in 0..MaxLen}}

\* No max, a numeric max, and a max that is not a number.
ParseMaxes == {NoNum, Num(5), Num(MAX_QUALITY), Num(MAX_DIMENSION), [t |-> "string", n |-> 0]}

InitParse ==
    /\ request = [uri |-> S_cat, querystring |-> EmptyQuerystring,
                  headers |-> Headers(NoAccept)]
    /\ input = request
    /\ calls = 0
    /\ result = NoResult
    /\ parseArgs \in {[value |-> v, max |-> m] : v \in ParseValues, m \in ParseMaxes}
    /\ parseRes = Idle

CallParsePositiveInt ==
    /\ ~parseRes.done
    /\ parseRes' = [done |-> TRUE, value |-> parsePositiveInt(parseArgs.value, parseArgs.max)]
    /\ UNCHANGED <<request, input, calls, result, parseArgs>>

NextParse == CallParsePositiveInt

SpecParse == InitParse /\ [][NextParse]_vars

\* ---------------------------------------------- vocabulary of the claims

\* The first invocation has returned.
Rewritten == calls = 1 /\ result.outcome = "return"

\* What has been appended to the original uri.
Appended == SubSeq(request.uri, Len(input.uri) + 1, Len(request.uri))

\* The segment after "<original uri>/".
Segment == SubSeq(request.uri, Len(input.uri) + 2, Len(request.uri))

Occurs(needle, hay) ==
    \E i \in 1..(Len(hay) - Len(needle) + 1) :
        \A k \in 1..Len(needle) : hay[i + k - 1] = needle[k]

EncEq == <<"%","3","D">>

EncComma == <<"%","2","C">>

\* The pair key=value is in the segment, as a whole pair.
HasPair(seg, key, val) ==
    LET pair == key \o EncEq \o val
    IN \E i \in 1..(Len(seg) - Len(pair) + 1) :
          /\ SubSeq(seg, i, i + Len(pair) - 1) = pair
          /\ \/ i = 1
             \/ i > 3 /\ SubSeq(seg, i - 3, i - 1) = EncComma
          /\ \/ i + Len(pair) - 1 = Len(seg)
             \/ SubSeq(seg, i + Len(pair), i + Len(pair) + 2) = EncComma

HasKey(seg, key) == Occurs(key \o EncEq, seg)

\* The entries of the original query string, in iteration order.
InputEntries ==
    IF input.querystring.t = "object" THEN input.querystring.entries ELSE <<>>

Named(e, key) == ToLowerCase(e.name) = key

\* A raw value read leniently: white space, an optional sign, then the longest
\* run of decimal digits, whatever follows; no number without a digit there.
Lenient(v) ==
    LET s == IF v.t = "string" THEN v.s ELSE <<>>
        ws == CHOOSE k \in 0..Len(s) :
                /\ \A q \in 1..k : s[q] \in {" ", "\t", "\n"}
                /\ k = Len(s) \/ s[k + 1] \notin {" ", "\t", "\n"}
        sg == IF ws < Len(s) /\ s[ws + 1] \in {"+", "-"} THEN 1 ELSE 0
        d0 == ws + sg + 1
        ends == {d1 \in d0..Len(s) : \A q \in d0..d1 : IsDigit(s[q])}
        d1 == CHOOSE e \in ends : \A f \in ends : f <= e
        Pow10[k \in 0..Len(s)] == IF k = 0 THEN 1 ELSE 10 * Pow10[k - 1]
        Sum[q \in (d0 - 1)..Len(s)] ==
            IF q < d0 THEN 0 ELSE Sum[q - 1] + DigitValue(s[q]) * Pow10[d1 - q]
    IN IF ends = {} THEN [numeric |-> FALSE, n |-> 0]
       ELSE [numeric |-> TRUE,
             n |-> IF sg = 1 /\ s[ws + 1] = "-" THEN 0 - Sum[d1] ELSE Sum[d1]]

SixFormats ==
    {S_jpeg, S_webp, <<"a","v","i","f">>, <<"p","n","g">>, <<"s","v","g">>,
     <<"g","i","f">>}

\* The format the Accept header stands for: webp exactly when its raw value
\* contains image/webp, jpeg otherwise and without a usable header.
AcceptFormat(headers) ==
    IF /\ headers.t = "object"
       /\ headers.accept.t = "object"
       /\ headers.accept.value.t = "string"
       /\ Occurs(S_image_webp, headers.accept.value.s)
    THEN S_webp ELSE S_jpeg

\* Splits str at every occurrence of sep.
RECURSIVE SplitAt(_, _)
SplitAt(str, sep) ==
    LET cuts == {i \in 1..(Len(str) - Len(sep) + 1) :
                    SubSeq(str, i, i + Len(sep) - 1) = sep}
    IN IF cuts = {} THEN <<str>>
       ELSE LET i == CHOOSE c \in cuts : \A d \in cuts : c <= d
            IN <<SubSeq(str, 1, i - 1)>>
                   \o SplitAt(SubSeq(str, i + Len(sep), Len(str)), sep)

KeyOrder == <<S_format, S_quality, S_width, S_height>>

KeyRank(key) == CHOOSE i \in 1..4 : KeyOrder[i] = key

\* seg is format=<one of the six>, then any of quality, width, height with a
\* decimal value, in that order, each pair percent-encoded and comma-joined.
WellFormedSegment(seg) ==
    LET pairs == SplitAt(seg, EncComma)
        kv == [i \in 1..Len(pairs) |-> SplitAt(pairs[i], EncEq)]
    IN /\ \A i \in 1..Len(pairs) :
             /\ Len(kv[i]) = 2
             /\ \E r \in 1..4 : KeyOrder[r] = kv[i][1]
       /\ kv[1][1] = S_format
       /\ kv[1][2] \in SixFormats
       /\ \A i \in 2..Len(pairs) :
             /\ KeyRank(kv[i - 1][1]) < KeyRank(kv[i][1])
             /\ kv[i][2] # <<>>
             /\ \A q \in 1..Len(kv[i][2]) : IsDigit(kv[i][2][q])

\* The format written by the first invocation.
WrittenFormat == SplitAt(SplitAt(Segment, EncComma)[1], EncEq)[2]

\* ------------------------------------------------------------------ claims

\* C5: the rewritten uri is the original uri, a slash, and the percent-encoded
\* comma-separated list of key=value pairs in the order format, quality, width,
\* height, format always there with one of the six values; the path
\* /img/cat.png with width=300&height=9999&quality=0&format=png becomes
\* /img/cat.png/ followed by the encoding of format=png,width=300,height=4000.
C5_Serialization ==
    Rewritten =>
        /\ SubSeq(request.uri, 1, Len(input.uri)) = input.uri
        /\ Appended # <<>> /\ Head(Appended) = "/"
        /\ WellFormedSegment(Segment)
        /\ input.uri = S_cat /\ input.querystring = ExampleQuerystring =>
              request.uri = S_cat \o <<"/">>
                  \o <<"f","o","r","m","a","t","%","3","D","p","n","g">>
                  \o <<"%","2","C","w","i","d","t","h","%","3","D","3","0","0">>
                  \o <<"%","2","C","h","e","i","g","h","t","%","3","D","4","0","0","0">>

C5_Witness ==
    /\ Rewritten
    /\ input.uri = S_cat
    /\ input.querystring = ExampleQuerystring
    /\ HasPair(Segment, S_height, <<"4","0","0","0">>)
    /\ ~HasKey(Segment, S_quality)

\* C6: the returned request is the request object passed in, its querystring
\* is an empty mapping and its headers are those of the input.
C6_Frame ==
    result.outcome = "return" =>
        /\ result.ref = "event.request"
        /\ request.querystring = [t |-> "object", entries |-> <<>>]
        /\ request.headers = input.headers

C6_Witness ==
    /\ Rewritten
    /\ Len(InputEntries) = 2
    /\ request.querystring.entries = <<>>
    /\ request.headers.accept.t = "object"

\* The number a raw value stands for is positive.
Valid(v) == Lenient(v).numeric /\ Lenient(v).n >= 1

Decimal(n) == NumberToString(n)

\* The clamp/drop rule for one key, decided by the last entry of that name
\* (in any letter case) whose value is a positive number.
ClampRule(key, bound) ==
    LET idx == {i \in 1..Len(InputEntries) :
                    Named(InputEntries[i], key) /\ Valid(InputEntries[i].value)}
        last == CHOOSE i \in idx : \A j \in idx : j <= i
        n == Lenient(InputEntries[last].value).n
    IN IF idx = {} THEN ~HasKey(Segment, key)
       ELSE HasPair(Segment, key, Decimal(IF n > bound THEN bound ELSE n))

\* The rule applied to every entry of that name.
ClampRuleEveryEntry(key, bound) ==
    \A i \in 1..Len(InputEntries) :
        LET v == InputEntries[i].value
            n == Lenient(v).n
        IN Named(InputEntries[i], key) =>
              /\ Valid(v) /\ n <= bound => HasPair(Segment, key, Decimal(n))
              /\ Valid(v) /\ n > bound => HasPair(Segment, key, Decimal(bound))
              /\ ~Valid(v) => ~HasKey(Segment, key)

\* C1 (as amended): for width and height with bound 4000 and quality with
\* bound 100, the rewritten uri carries the value of the last entry of that
\* name whose value is a positive number, exactly when it is within the bound
\* and as the bound when above it; the key is absent when no entry of that name
\* has a positive number.
C1_ClampOrDrop ==
    Rewritten =>
        /\ ClampRule(S_width, 4000)
        /\ ClampRule(S_height, 4000)
        /\ ClampRule(S_quality, 100)

C1_Witness ==
    /\ Rewritten
    /\ \E i, j \in 1..Len(InputEntries) :
          /\ i < j
          /\ Named(InputEntries[i], S_width) /\ Named(InputEntries[j], S_width)
          /\ Lenient(InputEntries[i].value).n > 4000
          /\ ~Valid(InputEntries[j].value)
    /\ HasPair(Segment, S_width, <<"4","0","0","0">>)

\* C1 (as stated): every width, height or quality input follows the rule: kept
\* when within the bound, the bound when above it, the key absent when the
\* input is not positive or not a number.
C1_Original ==
    Rewritten =>
        /\ ClampRuleEveryEntry(S_width, 4000)
        /\ ClampRuleEveryEntry(S_height, 4000)
        /\ ClampRuleEveryEntry(S_quality, 100)

\* The format values of the query string that handler accepts, lowercased, in
\* iteration order.
SupportedFormatIndexes ==
    {i \in 1..Len(InputEntries) :
        /\ Named(InputEntries[i], S_format)
        /\ InputEntries[i].value.t = "string"
        /\ ToLowerCase(InputEntries[i].value.s) \in SixFormats \cup {S_auto}}

\* The accepted format value iterated last; <<>> when there is none.
LastSupportedFormat ==
    IF SupportedFormatIndexes = {} THEN <<>>
    ELSE ToLowerCase(InputEntries[CHOOSE i \in SupportedFormatIndexes :
                                    \A j \in SupportedFormatIndexes : j <= i].value.s)

NoAutoWritten ==
    /\ ~Occurs(S_format \o EncEq \o S_auto, Appended)
    /\ ~Occurs(S_format \o <<"=">> \o S_auto, Appended)

\* C2 (as amended): no invocation writes format=auto, and when the accepted
\* format value iterated last is auto in any letter case, the format written
\* is the one the Accept header stands for.
C2_AutoNegotiates ==
    result.outcome = "return" =>
        /\ NoAutoWritten
        /\ calls = 1 /\ LastSupportedFormat = S_auto =>
              WrittenFormat = AcceptFormat(input.headers)

C2_Witness ==
    /\ Rewritten
    /\ \E i \in 1..Len(InputEntries) :
          InputEntries[i] = Entry(<<"F","O","R","M","A","T">>, Str(<<"A","U","T","O">>))
    /\ LastSupportedFormat = S_auto
    /\ WrittenFormat = S_webp

\* C2 (as stated): with a format parameter of value auto in any letter case,
\* format=auto is not written and the format written is the negotiated one.
C2_Original ==
    Rewritten /\ (\E i \in 1..Len(InputEntries) :
                    /\ Named(InputEntries[i], S_format)
                    /\ InputEntries[i].value.t = "string"
                    /\ ToLowerCase(InputEntries[i].value.s) = S_auto) =>
        /\ NoAutoWritten
        /\ WrittenFormat = AcceptFormat(input.headers)

\* C3 (as amended): when the accepted format value iterated last is not auto,
\* it is written, lowercased, whatever the headers are; the Accept header
\* decides only when no format value is accepted or the last accepted is auto.
C3_QueryFormatWins ==
    Rewritten =>
        IF LastSupportedFormat \in SixFormats
        THEN WrittenFormat = LastSupportedFormat
        ELSE WrittenFormat = AcceptFormat(input.headers)

C3_Witness ==
    /\ Rewritten
    /\ LastSupportedFormat = <<"p","n","g">>
    /\ AcceptFormat(input.headers) = S_webp
    /\ WrittenFormat = <<"p","n","g">>

\* C3 (as stated): with an explicit, supported, non-auto format in the query
\* string, the format written is a lowercased query format, never one taken
\* from the Accept header.
C3_Original ==
    LET explicit == {ToLowerCase(InputEntries[i].value.s) :
                        i \in {j \in SupportedFormatIndexes :
                                ToLowerCase(InputEntries[j].value.s) # S_auto}}
    IN Rewritten /\ explicit # {} => WrittenFormat \in explicit

\* C4: without a format query parameter the resolved format is webp exactly
\* when the accept header's raw value contains image/webp, and jpeg otherwise,
\* also with missing or malformed headers.
C4_Original ==
    calls = 1 /\ (\A i \in 1..Len(InputEntries) : ~Named(InputEntries[i], S_format)) =>
        /\ result.outcome = "return"
        /\ WrittenFormat = AcceptFormat(input.headers)

\* C7: handler never throws: every invocation returns a rewritten request.
C7_NeverThrows == calls >= 1 => result.outcome = "return"

Permutations(seq) ==
    {[i \in 1..Len(seq) |-> seq[f[i]]] :
        f \in {g \in [1..Len(seq) -> 1..Len(seq)] :
                \A a, b \in 1..Len(seq) : a # b => g[a] # g[b]}}

SameUriInEveryOrder ==
    \A p \in Permutations(InputEntries) :
        handler([input EXCEPT !.querystring.entries = p]).request.uri = request.uri

LowercasedNamesDistinct ==
    \A i, j \in 1..Len(InputEntries) :
        i # j => ToLowerCase(InputEntries[i].name) # ToLowerCase(InputEntries[j].name)

\* C8 (as amended): for a query string no two of whose names are equal once
\* lowercased, every iteration order of its entries gives the same rewritten uri.
C8_OrderIndependent ==
    Rewritten /\ LowercasedNamesDistinct => SameUriInEveryOrder

C8_Witness ==
    /\ Rewritten
    /\ Len(InputEntries) = 2
    /\ Named(InputEntries[1], S_height)
    /\ Named(InputEntries[2], S_format)
    /\ HasPair(Segment, S_height, <<"4","0","0","0">>)
    /\ WrittenFormat = <<"p","n","g">>
    /\ SameUriInEveryOrder

\* C8 (as stated): every iteration order of the entries of any query string,
\* names differing only in letter case included, gives the same rewritten uri.
C8_Original == Rewritten => SameUriInEveryOrder

\* C9: parsePositiveInt reads the longest numeric prefix (after white space and
\* a sign) in base 10 and returns null when there is none or it is not
\* positive, min(parsed, max) with a numeric max, the parsed value without one;
\* it changes nothing else.
C9_ParsePositiveInt ==
    parseRes.done =>
        LET L == Lenient(parseArgs.value)
            max == parseArgs.max
        IN /\ parseRes.value =
                IF ~L.numeric \/ L.n <= 0 THEN [t |-> "null", n |-> 0]
                ELSE IF max.t = "number"
                THEN [t |-> "number", n |-> IF L.n <= max.n THEN L.n ELSE max.n]
                ELSE [t |-> "number", n |-> L.n]
           /\ request = input /\ calls = 0

C9_Witness ==
    /\ parseRes.done
    /\ parseArgs.value = Str(<<" ","7","a">>)
    /\ parseArgs.max = Num(5)
    /\ parseRes.value = Num(5)

\* C10: no invocation alters what the uri already holds, and every invocation
\* after the first that returns appends one segment, a slash and the encoding
\* of format=<f>, f being the format the Accept header stands for, with no
\* quality, width or height.
C10_Reapply ==
    [][/\ SubSeq(request'.uri, 1, Len(request.uri)) = request.uri
       /\ calls >= 1 /\ result'.outcome = "return" =>
             request'.uri = request.uri \o <<"/">> \o S_format \o EncEq
                                \o AcceptFormat(request.headers)]_vars

C10_Witness ==
    /\ calls = 3
    /\ result.outcome = "return"
    /\ HasKey(Appended, S_width)
    /\ LET seg == <<"/">> \o S_format \o EncEq \o AcceptFormat(input.headers)
           n == Len(request.uri)
       IN /\ SubSeq(request.uri, n - Len(seg) + 1, n) = seg
          /\ SubSeq(request.uri, n - 2 * Len(seg) + 1, n - Len(seg)) = seg
    /\ request.uri # handler(input).request.uri

====
